---- MODULE Spec2Model ----
(***************************************************************************)
(* Model of py4DSTEM/process/datastructure/dataobject.py: the DataObject   *)
(* class (parent list, per-parent save behavior, modification log) and the *)
(* DataObjectTracker class (the per-RawDataCube list of tracked objects).  *)
(* Every method call is one atomic action; an exception raised inside a    *)
(* call leaves the mutations made before the raise in place, as in Python. *)
(***************************************************************************)
EXTENDS Integers, Sequences, FiniteSets, TLC

\* ---------------------------------------------------------------- bounds
MaxObjects == 3      \* DataObject instances ever constructed
MaxCalls == 4        \* constructor, new_parent and new_dataobject calls in a run
MaxSaveCalls == 3    \* the same, in the runs that end in a save-behavior call
MaxLogCalls == 3     \* the same plus log_modification calls, in the runs of SpecLog
MaxQueryCalls == 4   \* the same, in the runs that end in a tracker query

\* ---------------------------------------------------------------- values
None == 0
Obj == 1..MaxObjects
Names == {"", "n"}
Types == {"RawDataCube", "DataCube"}
NoError == "ok"
\* Names and list indices given to the calls of SpecQuery.
QueryNames == {"", "n", "m"}
Indices == (0 - MaxQueryCalls - 1) .. (MaxQueryCalls + 1)
NoKwargs == [save_behavior |-> <<>>, name |-> <<>>]
SaveKwargs == [save_behavior : {<<>>, <<TRUE>>, <<FALSE>>}, name : {<<>>}]
NameKwargs == [save_behavior : {<<>>}, name : {<<>>, <<"n">>}]

VARIABLES
    objtype,                    \* type(obj), "none" while the id is unused
    constructed,                \* TRUE once __init__ has returned normally
    name,                       \* DataObject.name
    save_behavior,              \* DataObject.save_behavior (the default)
    parents_and_save_behavior,  \* DataObject.parents_and_save_behavior
    modification_log,           \* DataObject.modification_log
    dataobject_list,            \* obj.dataobjecttracker.dataobject_list
    log_index,                  \* logger.log_index
    call,                       \* the last call: method, receiver, argument, kwargs
    result,                     \* how it ended: "ok" or the exception raised
    ret,                        \* <<v>> when it returned the value v, else <<>>
    nested,                     \* the calls new_parent and new_dataobject made of
                                \* each other inside the last call, in order
    calls_left                  \* counted calls the run may still make

vars == <<objtype, constructed, name, save_behavior, parents_and_save_behavior,
          modification_log, dataobject_list, log_index, call, result, ret, nested,
          calls_left>>

\* The objects and trackers as one value, threaded through the method bodies.
Heap ==
    [objtype |-> objtype, name |-> name, save_behavior |-> save_behavior,
     pl |-> parents_and_save_behavior, dl |-> dataobject_list,
     ml |-> modification_log, log_index |-> log_index, err |-> NoError,
     rc |-> <<>>]

Raise(st, e) == [st EXCEPT !.err = e]

\* An object has a dataobjecttracker attribute iff it is a RawDataCube.
HasTracker(st, o) == st.objtype[o] = "RawDataCube"

\* ---------------------------------------------------------------- DataObject
get_parent_list(st, self) ==
    [i \in DOMAIN st.pl[self] |-> st.pl[self][i][1]]

has_parent(st, self, datacube) ==
    LET parent_list == get_parent_list(st, self)
    IN  \E i \in DOMAIN parent_list : parent_list[i] = datacube

\* list.index(x): position of the first occurrence
ListIndex(list, x) ==
    CHOOSE i \in DOMAIN list : list[i] = x /\ \A j \in 1..(i-1) : list[j] # x

get_dataobjecttrackers_parents_only(st, dataobject) ==
    SelectSeq(get_parent_list(st, dataobject), LAMBDA p : HasTracker(st, p))

get_dataobjecttrackers(st, dataobject) ==
    (IF HasTracker(st, dataobject) THEN <<dataobject>> ELSE <<>>)
    \o SelectSeq(get_parent_list(st, dataobject), LAMBDA p : HasTracker(st, p))

change_save_behavior_unchecked(st, self, parent, sb) ==
    IF ~has_parent(st, self, parent)
    THEN [st EXCEPT !.pl[self] = Append(@, <<parent, sb>>)]
    ELSE Raise(st, "TypeError")

\* The assert guards the lookup; the lookup itself is list.index() called
\* without an argument, which raises TypeError before anything is assigned.
change_save_behavior(st, self, parent, sb) ==
    IF ~has_parent(st, self, parent)
    THEN Raise(st, "AssertionError")
    ELSE Raise(st, "TypeError")

\* Result of get_save_behavior: <<error, returned value>>
get_save_behavior(st, self, parent) ==
    IF ~has_parent(st, self, parent)
    THEN <<"AssertionError", <<>>>>
    ELSE <<NoError, <<st.pl[self][ListIndex(get_parent_list(st, self), parent)][2]>>>>

ParentInList_never(st, self, parent) == FALSE

\* "parent in self.get_parent_list()" of new_parent
ParentInList(st, self, parent) ==
    LET parent_list == get_parent_list(st, self)
    IN  \E i \in DOMAIN parent_list : parent_list[i] = parent

AppendParent_front(st, self, parent, sb) ==
    [st EXCEPT !.pl[self] = <<<<parent, sb>>>> \o @]

AppendParent_logged(st, self, parent, sb) ==
    [st EXCEPT !.pl[self] = Append(@, <<parent, sb>>),
               !.ml[self] = Append(@, st.log_index - 1)]

AppendParent_replace(st, self, parent, sb) ==
    [st EXCEPT !.pl[self] = <<<<parent, sb>>>>]

\* self.parents_and_save_behavior.append((parent,save_behavior))
AppendParent(st, self, parent, sb) ==
    [st EXCEPT !.pl[self] = Append(@, <<parent, sb>>)]

get_current_log_index(st) == st.log_index

log_modification_no_offset(st, self) ==
    [st EXCEPT !.ml[self] = Append(@, get_current_log_index(st))]

\* index = self.get_current_log_index()-1; self.modification_log.append(index)
log_modification(st, self) ==
    [st EXCEPT !.ml[self] = Append(@, get_current_log_index(st) - 1)]

\* ---------------------------------------------------------------- DataObjectTracker
contains_dataobject(st, tracker, dataobject) ==
    \E i \in DOMAIN st.dl[tracker] : st.dl[tracker][i][4] = dataobject

\* "dataobject in self.dataobject_list" compares the object with the 4-tuples
\* stored in the list; a DataObject never equals a tuple.
ObjectEqualsTuple(dataobject, tup) == FALSE

InDataobjectList(st, tracker, dataobject) ==
    \E i \in DOMAIN st.dl[tracker] : ObjectEqualsTuple(dataobject, st.dl[tracker][i])

NewTuple_from_one(st, tracker, dataobject, kwargs) ==
    <<Len(st.dl[tracker]) + 1,
      IF kwargs.name # <<>> THEN kwargs.name[1] ELSE st.name[dataobject],
      st.objtype[dataobject], dataobject>>

NewTuple_index_zero(st, tracker, dataobject, kwargs) ==
    <<0,
      IF kwargs.name # <<>> THEN kwargs.name[1] ELSE st.name[dataobject],
      st.objtype[dataobject], dataobject>>

\* tup = (index, name, objecttype, dataobject)
NewTuple(st, tracker, dataobject, kwargs) ==
    <<Len(st.dl[tracker]),
      IF kwargs.name # <<>> THEN kwargs.name[1] ELSE st.name[dataobject],
      st.objtype[dataobject], dataobject>>

\* A tracker is named by the object that owns it: the object that built it
\* passed itself as rawdatacube.
rawdatacube(tracker) == tracker

TrackersOfParent_self(st, self, parent) == get_dataobjecttrackers(st, self)

\* dataobjecttrackers = self.get_dataobjecttrackers(parent)
TrackersOfParent(st, self, parent) == get_dataobjecttrackers(st, parent)

LinkParent_nothing(st, self, parent, sb) == st

\* The first branch of new_parent: a new parent is appended with the save
\* behavior, a known one has its save behavior changed.
LinkParent(st, self, parent, sb) ==
    IF ~ParentInList(st, self, parent)
    THEN AppendParent(st, self, parent, sb)
    ELSE change_save_behavior(st, self, parent, sb)

RECURSIVE new_parent(_, _, _, _)
RECURSIVE new_dataobject(_, _, _, _)
RECURSIVE add_to_trackers(_, _, _, _, _)

\* A call one of the two methods makes of the other is noted with what held
\* when it was made: linked, the object has the tracker's owner as parent;
\* tracked, the tracker contains the object; checked, the membership test the
\* calling method has passed or made true (new_parent: its parent is in the
\* parent list; new_dataobject: its tracker contains the object).
NestedCall(st, callee, dataobject, owner, checked) ==
    [st EXCEPT !.rc = Append(@, [callee |-> callee, dataobject |-> dataobject,
                                 owner |-> owner,
                                 linked |-> has_parent(st, dataobject, owner),
                                 tracked |-> contains_dataobject(st, owner, dataobject),
                                 checked |-> checked])]

\* The loop of new_parent over the trackers; an exception ends it.
add_to_trackers(st, self, parent, trackers, sb) ==
    IF trackers = <<>> \/ st.err # NoError
    THEN st
    ELSE LET tracker == Head(trackers)
             st1 == IF ~contains_dataobject(st, tracker, self)
                    THEN new_dataobject(
                             NestedCall(st, "new_dataobject", self, rawdatacube(tracker),
                                        has_parent(st, self, parent)),
                             tracker, self, [save_behavior |-> <<sb>>, name |-> <<>>])
                    ELSE st
         IN  add_to_trackers(st1, self, parent, Tail(trackers), sb)

new_parent(st, self, parent, kwargs) ==
    LET sb == IF kwargs.save_behavior # <<>>
              THEN kwargs.save_behavior[1]
              ELSE st.save_behavior[self]
    IN  IF parent = None
        THEN st
        ELSE LET st1 == LinkParent(st, self, parent, sb)
             IN  IF st1.err # NoError
                 THEN st1
                 ELSE add_to_trackers(st1, self, parent,
                                      TrackersOfParent(st1, self, parent), sb)

\* dataobject = None stands for an argument that is not a DataObject.
new_dataobject(st, tracker, dataobject, kwargs) ==
    IF dataobject = None
    THEN Raise(st, "AssertionError")
    ELSE LET st1 == IF ~InDataobjectList(st, tracker, dataobject)
                    THEN [st EXCEPT !.dl[tracker] =
                             Append(@, NewTuple(st, tracker, dataobject, kwargs))]
                    ELSE st
         IN  IF ~has_parent(st1, dataobject, rawdatacube(tracker))
             THEN IF kwargs.save_behavior # <<>>
                  \* new_parent(self.rawdatacube, kwargs['save_behavior']):
                  \* a second positional argument, which new_parent does not take
                  THEN Raise(st1, "TypeError")
                  ELSE new_parent(
                           NestedCall(st1, "new_parent", dataobject, rawdatacube(tracker),
                                      contains_dataobject(st1, tracker, dataobject)),
                           dataobject, rawdatacube(tracker), NoKwargs)
             ELSE st1

\* Python's list subscript: the 1-based position seq[index] reads, a negative
\* index counting from the end; 0 when it raises IndexError.
PyIndex_clamped(seq, index) ==
    IF index >= Len(seq) THEN 0
    ELSE IF index < 0 THEN (IF seq = <<>> THEN 0 ELSE 1)
    ELSE index + 1

PyIndex(seq, index) ==
    IF index >= Len(seq) \/ index < 0 - Len(seq) THEN 0
    ELSE IF index < 0 THEN Len(seq) + index + 1
    ELSE index + 1

\* return self.dataobject_list[index][3], as <<exception, <<value>>>>
get_object_by_index(st, tracker, index) ==
    LET p == PyIndex(st.dl[tracker], index)
    IN  IF p = 0 THEN <<"IndexError", <<>>>>
        ELSE <<NoError, <<st.dl[tracker][p][4]>>>>

IsNamed(tup) == tup[2] # ""

IsUnnamed(tup) == tup[2] = ""

sort_dataobjects_by_name_unnamed_first(st, tracker) ==
    SelectSeq(st.dl[tracker], IsUnnamed) \o SelectSeq(st.dl[tracker], IsNamed)

sort_dataobjects_by_name(st, tracker) ==
    SelectSeq(st.dl[tracker], IsNamed) \o SelectSeq(st.dl[tracker], IsUnnamed)

\* ---------------------------------------------------------------- actions
Exists(o) == objtype[o] # "none"
NextId == CHOOSE o \in Obj : ~Exists(o) /\ \A p \in 1..(o-1) : Exists(p)

Commit(st) ==
    /\ parents_and_save_behavior' = st.pl
    /\ dataobject_list' = st.dl
    /\ modification_log' = st.ml
    /\ result' = st.err
    /\ nested' = st.rc

\* The calls that change objects or trackers are counted. The two save-behavior
\* calls leave every object and tracker as it was, so what can follow one of
\* them is what can follow the state it was made in: a run is explored as its
\* counted calls, followed in SpecSave by one save-behavior call.
QueryOps == {"get_save_behavior", "change_save_behavior"}

\* The tracker's queries, which end the runs of SpecQuery in the same way.
TrackerQueryOps == {"get_object_by_index", "sort_dataobjects_by_name"}

Running == call.op \notin (QueryOps \cup TrackerQueryOps)

Counted ==
    /\ Running
    /\ calls_left > 0
    /\ calls_left' = calls_left - 1

\* A RawDataCube is constructed without parent, with the default save_behavior
\* and name, and builds its (empty) DataObjectTracker.
RawDataCubeArgs(parent, sb, nm) == parent = None /\ sb = TRUE /\ nm = ""

\* DataObject.__init__. Only RawDataCube instances may have an empty parent
\* list: every other type is constructed with a parent.
Create(parent, sb, nm, ty) ==
    /\ \E o \in Obj : ~Exists(o)
    /\ parent # None => Exists(parent)
    /\ ty = "RawDataCube" => RawDataCubeArgs(parent, sb, nm)
    /\ ty # "RawDataCube" => parent # None
    /\ Counted
    /\ LET self == NextId
           st0 == [Heap EXCEPT !.objtype[self] = ty, !.name[self] = nm,
                               !.save_behavior[self] = sb, !.pl[self] = <<>>]
           st1 == new_parent(st0, self, parent, [save_behavior |-> <<sb>>, name |-> <<>>])
           \* self.modification_log = list(); self.log_modification()
           st2 == IF st1.err = NoError
                  THEN log_modification([st1 EXCEPT !.ml[self] = <<>>], self)
                  ELSE st1
       IN  /\ objtype' = st2.objtype
           /\ name' = st2.name
           /\ save_behavior' = st2.save_behavior
           /\ Commit(st2)
           /\ constructed' = [constructed EXCEPT ![self] = (st2.err = NoError)]
    /\ call' = [op |-> "create", self |-> NextId, arg |-> parent,
                kwargs |-> [save_behavior |-> <<sb>>, name |-> <<nm>>]]
    /\ ret' = <<>>
    /\ UNCHANGED log_index

NewParent(self, parent, kwargs) ==
    /\ Exists(self)
    /\ parent # None => Exists(parent)
    /\ Counted
    /\ LET st == new_parent(Heap, self, parent, kwargs) IN Commit(st)
    /\ call' = [op |-> "new_parent", self |-> self, arg |-> parent, kwargs |-> kwargs]
    /\ ret' = <<>>
    /\ UNCHANGED <<objtype, constructed, name, save_behavior, log_index>>

NewDataobject(tracker, dataobject, kwargs) ==
    /\ Exists(tracker) /\ HasTracker(Heap, tracker)
    /\ dataobject # None => Exists(dataobject)
    /\ Counted
    /\ LET st == new_dataobject(Heap, tracker, dataobject, kwargs) IN Commit(st)
    /\ call' = [op |-> "new_dataobject", self |-> tracker, arg |-> dataobject,
                kwargs |-> kwargs]
    /\ ret' = <<>>
    /\ UNCHANGED <<objtype, constructed, name, save_behavior, log_index>>

ChangeSaveBehavior(self, parent, sb) ==
    /\ Running
    /\ Exists(self) /\ Exists(parent)
    /\ LET st == change_save_behavior(Heap, self, parent, sb) IN Commit(st)
    /\ call' = [op |-> "change_save_behavior", self |-> self, arg |-> parent,
                kwargs |-> [save_behavior |-> <<sb>>, name |-> <<>>]]
    /\ ret' = <<>>
    /\ UNCHANGED <<objtype, constructed, name, save_behavior, log_index, calls_left>>

GetSaveBehavior(self, parent) ==
    /\ Running
    /\ Exists(self) /\ Exists(parent)
    /\ LET r == get_save_behavior(Heap, self, parent)
       IN  result' = r[1] /\ ret' = r[2]
    /\ nested' = <<>>
    /\ call' = [op |-> "get_save_behavior", self |-> self, arg |-> parent,
                kwargs |-> NoKwargs]
    /\ UNCHANGED <<objtype, constructed, name, save_behavior, parents_and_save_behavior,
                   modification_log, dataobject_list, log_index, calls_left>>

\* log_modification, as the @log decorator calls it on its DataObject
\* arguments. An object whose __init__ raised has no modification_log.
LogModification(self) ==
    /\ Exists(self)
    /\ Counted
    /\ LET st == IF constructed[self]
                 THEN log_modification(Heap, self)
                 ELSE Raise(Heap, "AttributeError")
       IN  Commit(st)
    /\ call' = [op |-> "log_modification", self |-> self, arg |-> None,
                kwargs |-> NoKwargs]
    /\ ret' = <<>>
    /\ UNCHANGED <<objtype, constructed, name, save_behavior, log_index>>

\* The logger, outside this module, moves its index on as it logs calls.
LogIndexValues == {1, 5, 9}

LoggerAdvance(k) ==
    /\ Running
    /\ k > log_index
    /\ log_index' = k
    /\ nested' = <<>>
    /\ call' = [op |-> "logger", self |-> None, arg |-> None, kwargs |-> NoKwargs]
    /\ result' = NoError
    /\ ret' = <<>>
    /\ UNCHANGED <<objtype, constructed, name, save_behavior, parents_and_save_behavior,
                   modification_log, dataobject_list, calls_left>>

\* tracker.get_object_by_index(index), through the show_object_list wrapper
\* with its default show=False, which returns what the method returns.
GetObjectByIndex(tracker, index) ==
    /\ Running
    /\ Exists(tracker) /\ HasTracker(Heap, tracker)
    /\ LET r == get_object_by_index(Heap, tracker, index)
       IN  result' = r[1] /\ ret' = r[2]
    /\ nested' = <<>>
    /\ call' = [op |-> "get_object_by_index", self |-> tracker, arg |-> index,
                kwargs |-> NoKwargs]
    /\ UNCHANGED <<objtype, constructed, name, save_behavior, parents_and_save_behavior,
                   modification_log, dataobject_list, log_index, calls_left>>

\* tracker.sort_dataobjects_by_name(), through the same wrapper.
SortDataobjectsByName(tracker) ==
    /\ Running
    /\ Exists(tracker) /\ HasTracker(Heap, tracker)
    /\ result' = NoError
    /\ ret' = <<sort_dataobjects_by_name(Heap, tracker)>>
    /\ nested' = <<>>
    /\ call' = [op |-> "sort_dataobjects_by_name", self |-> tracker, arg |-> None,
                kwargs |-> NoKwargs]
    /\ UNCHANGED <<objtype, constructed, name, save_behavior, parents_and_save_behavior,
                   modification_log, dataobject_list, log_index, calls_left>>

Empty ==
    /\ objtype = [o \in Obj |-> "none"]
    /\ constructed = [o \in Obj |-> FALSE]
    /\ name = [o \in Obj |-> ""]
    /\ save_behavior = [o \in Obj |-> TRUE]
    /\ parents_and_save_behavior = [o \in Obj |-> <<>>]
    /\ modification_log = [o \in Obj |-> <<>>]
    /\ dataobject_list = [o \in Obj |-> <<>>]
    /\ log_index = 1
    /\ call = [op |-> "init", self |-> None, arg |-> None, kwargs |-> NoKwargs]
    /\ result = NoError
    /\ ret = <<>>
    /\ nested = <<>>

Init == Empty /\ calls_left = MaxCalls

InitSave == Empty /\ calls_left = MaxSaveCalls

InitLog == Empty /\ calls_left = MaxLogCalls

InitQuery == Empty /\ calls_left = MaxQueryCalls

Register ==
    \/ \E parent \in Obj \cup {None}, sb \in BOOLEAN, nm \in Names, ty \in Types :
          Create(parent, sb, nm, ty)
    \/ \E self \in Obj, parent \in Obj \cup {None}, kwargs \in SaveKwargs :
          NewParent(self, parent, kwargs)
    \/ \E tracker \in Obj, dataobject \in Obj \cup {None}, kwargs \in SaveKwargs :
          NewDataobject(tracker, dataobject, kwargs)

Next == Register

NextSave ==
    \/ Register
    \/ \E self \in Obj, parent \in Obj, sb \in BOOLEAN :
          ChangeSaveBehavior(self, parent, sb)
    \/ \E self \in Obj, parent \in Obj :
          GetSaveBehavior(self, parent)

\* The runs that log. Names, which no log depends on, are left at their
\* defaults.
NextLog ==
    \/ \E parent \in Obj \cup {None}, sb \in BOOLEAN, ty \in Types :
          Create(parent, sb, "", ty)
    \/ \E self \in Obj, parent \in Obj \cup {None}, kwargs \in SaveKwargs :
          NewParent(self, parent, kwargs)
    \/ \E tracker \in Obj, dataobject \in Obj \cup {None}, kwargs \in SaveKwargs :
          NewDataobject(tracker, dataobject, kwargs)
    \/ \E self \in Obj : LogModification(self)
    \/ \E k \in LogIndexValues : LoggerAdvance(k)
    \/ \E self \in Obj, parent \in Obj, sb \in BOOLEAN :
          ChangeSaveBehavior(self, parent, sb)
    \/ \E tracker \in Obj :
          SortDataobjectsByName(tracker)

\* The runs that fill the trackers' lists and end in a query of a tracker.
\* Objects are given one of two non-empty names here, so that the order in
\* which entries were added differs from the order of their names; the save
\* behaviors, which no query reads, are left at their defaults.
NextQuery ==
    \/ \E parent \in Obj \cup {None}, nm \in QueryNames, ty \in Types :
          Create(parent, TRUE, nm, ty)
    \/ \E tracker \in Obj, dataobject \in Obj \cup {None}, kwargs \in NameKwargs :
          NewDataobject(tracker, dataobject, kwargs)
    \/ \E tracker \in Obj, index \in Indices :
          GetObjectByIndex(tracker, index)
    \/ \E tracker \in Obj :
          SortDataobjectsByName(tracker)

Spec == Init /\ [][Next]_vars

SpecQuery == InitQuery /\ [][NextQuery]_vars

SpecLog == InitLog /\ [][NextLog]_vars

SpecSave == InitSave /\ [][NextSave]_vars

\* ---------------------------------------------------------------- properties
MutatingOps == {"create", "new_parent", "new_dataobject"}

\* C1: whenever a mutating operation has returned, every entry of every
\* tracker refers to an object whose parent list contains the tracker's owner.
C1_EntriesLinkedAfterReturn ==
    (call.op \in MutatingOps /\ result = NoError) =>
        \A t \in Obj : \A i \in DOMAIN dataobject_list[t] :
            has_parent(Heap, dataobject_list[t][i][4], t)

\* C2: whenever an object's parent list contains a parent that owns a tracker,
\* that tracker contains the object.
C2_LinkImpliesEntry ==
    \A a \in Obj, o \in Obj :
        (has_parent(Heap, a, o) /\ HasTracker(Heap, o)) => contains_dataobject(Heap, o, a)

\* An object linked to one parent by its constructor and to a second one by a
\* new_dataobject call on the second parent's tracker.
C2_Witness ==
    /\ call.op = "new_dataobject" /\ result = NoError
    /\ call.arg # None /\ call.arg # call.self
    /\ \E o1 \in Obj \ {call.self, call.arg} :
          /\ get_parent_list(Heap, call.arg) = <<o1, call.self>>
          /\ contains_dataobject(Heap, o1, call.arg)
          /\ contains_dataobject(Heap, call.self, call.arg)

\* C3: a constructor call with parent o and save behavior b leaves the new
\* object in o's tracker, with o in its parent list and b as its save behavior
\* for o; if o's tracker was empty, its list is exactly [(0, name, type, a)].
C3_CreatePostcondition ==
    [][(call'.op = "create" /\ call'.arg # None) =>
          LET a == call'.self
              o == call'.arg
          IN  /\ has_parent(Heap', a, o)
              /\ get_save_behavior(Heap', a, o) = <<NoError, call'.kwargs.save_behavior>>
              /\ HasTracker(Heap, o) => contains_dataobject(Heap', o, a)
              /\ (HasTracker(Heap, o) /\ dataobject_list[o] = <<>>)
                    => dataobject_list'[o] = << <<0, call'.kwargs.name[1], objtype'[a], a>> >>
      ]_vars

\* The constructor of a named object with save behavior False has returned,
\* and the object is the only entry of its parent's tracker.
C3_Witness ==
    /\ call.op = "create" /\ result = NoError /\ call.arg # None
    /\ call.kwargs = [save_behavior |-> <<FALSE>>, name |-> <<"n">>]
    /\ constructed[call.self]
    /\ parents_and_save_behavior[call.self] = << <<call.arg, FALSE>> >>
    /\ dataobject_list[call.arg] = << <<0, "n", objtype[call.self], call.self>> >>

\* C4: new_dataobject(a, save_behavior=b) on the tracker of o2, for an object a
\* that has a parent o1 and not o2, completes and leaves a with parent o2,
\* save behavior b for o2, and a in o2's tracker.
C4_RegisterWithSaveBehavior ==
    [][( /\ call'.op = "new_dataobject"
         /\ call'.arg # None
         /\ call'.kwargs.save_behavior # <<>>
         /\ ~has_parent(Heap, call'.arg, call'.self)
         /\ \E o1 \in Obj \ {call'.self} : has_parent(Heap, call'.arg, o1) )
       => /\ result' = NoError
          /\ has_parent(Heap', call'.arg, call'.self)
          /\ get_save_behavior(Heap', call'.arg, call'.self)
                = <<NoError, call'.kwargs.save_behavior>>
          /\ contains_dataobject(Heap', call'.self, call'.arg)
      ]_vars

\* C5: new_parent(o, b2) on an object that already has parent o completes and
\* leaves exactly one link for o, with save behavior b2, and exactly one entry
\* for the object in o's tracker.
C5_RepeatedNewParent ==
    [][( /\ call'.op = "new_parent"
         /\ call'.arg # None
         /\ has_parent(Heap, call'.self, call'.arg) )
       => LET a == call'.self
              o == call'.arg
          IN  /\ result' = NoError
              /\ Cardinality({i \in DOMAIN parents_and_save_behavior'[a] :
                                 parents_and_save_behavior'[a][i][1] = o}) = 1
              /\ get_save_behavior(Heap', a, o) =
                    <<NoError, IF call'.kwargs.save_behavior # <<>>
                               THEN call'.kwargs.save_behavior
                               ELSE <<save_behavior[a]>> >>
              /\ HasTracker(Heap, o) =>
                    Cardinality({i \in DOMAIN dataobject_list'[o] :
                                    dataobject_list'[o][i][4] = a}) = 1
      ]_vars

\* C6: no tracker holds two entries that refer to the same object.
C6_NoDuplicateEntries ==
    \A t \in Obj : \A i \in DOMAIN dataobject_list[t], j \in DOMAIN dataobject_list[t] :
        dataobject_list[t][i][4] = dataobject_list[t][j][4] => i = j

\* The object and the parent of a new_parent or new_dataobject call.
RegisteredObject(c) == IF c.op = "new_parent" THEN c.self ELSE c.arg
RegisteredParent(c) == IF c.op = "new_parent" THEN c.arg ELSE c.self

\* C7: new_parent(o2, ...) on a, or new_dataobject(a, ...) on o2's tracker,
\* leaves every link of a to another parent o1 at its position with its save
\* behavior, and leaves the list of o1's tracker unchanged.
C7_SecondParentFrame ==
    [][( /\ call'.op \in {"new_parent", "new_dataobject"}
         /\ RegisteredObject(call') # None )
       => LET a  == RegisteredObject(call')
              o2 == RegisteredParent(call')
          IN  \A i \in DOMAIN parents_and_save_behavior[a] :
                 parents_and_save_behavior[a][i][1] # o2 =>
                    /\ i \in DOMAIN parents_and_save_behavior'[a]
                    /\ parents_and_save_behavior'[a][i] = parents_and_save_behavior[a][i]
                    /\ dataobject_list'[parents_and_save_behavior[a][i][1]]
                          = dataobject_list[parents_and_save_behavior[a][i][1]]
      ]_vars

\* An object has been given a second parent by new_parent, with a save
\* behavior that differs from the one it keeps for its first parent.
C7_Witness ==
    /\ call.op = "new_parent" /\ result = NoError
    /\ call.kwargs.save_behavior = <<FALSE>>
    /\ \E o1 \in Obj \ {call.arg} :
          /\ parents_and_save_behavior[call.self] = << <<o1, TRUE>>, <<call.arg, FALSE>> >>
          /\ contains_dataobject(Heap, o1, call.self)
          /\ contains_dataobject(Heap, call.arg, call.self)

\* C8: change_save_behavior(o, b) on an object that has parent o completes and
\* sets the boolean of exactly the link for o, leaving the rest as it was.
C8_ChangeSaveBehavior ==
    [][( /\ call'.op = "change_save_behavior"
         /\ has_parent(Heap, call'.self, call'.arg) )
       => /\ result' = NoError
          /\ parents_and_save_behavior' =
                [parents_and_save_behavior EXCEPT
                    ![call'.self][ListIndex(get_parent_list(Heap, call'.self), call'.arg)][2]
                        = call'.kwargs.save_behavior[1]]
      ]_vars

\* C9: get_save_behavior(o) and change_save_behavior(o, b) on an object whose
\* parent list does not contain o fail on their assertion and leave the parent
\* lists, the modification logs and the trackers as they were.
C9_UnknownParentFails ==
    [][( /\ call'.op \in QueryOps
         /\ ~has_parent(Heap, call'.self, call'.arg) )
       => /\ result' = "AssertionError"
          /\ ret' = <<>>
          /\ UNCHANGED <<parents_and_save_behavior, modification_log, dataobject_list>>
      ]_vars

\* A save-behavior call for a parent that was never added has just failed, on
\* an object that has another parent.
C9_Witness ==
    /\ call.op \in QueryOps
    /\ result = "AssertionError"
    /\ parents_and_save_behavior[call.self] # <<>>
    /\ ~has_parent(Heap, call.self, call.arg)

\* C10: no parent list contains the same parent twice.
C10_NoDuplicateParents ==
    \A a \in Obj : \A i \in DOMAIN parents_and_save_behavior[a],
                      j \in DOMAIN parents_and_save_behavior[a] :
        parents_and_save_behavior[a][i][1] = parents_and_save_behavior[a][j][1] => i = j

\* new_parent has just been called for a parent the object already had, and
\* new_dataobject had been called before for an object already in the tracker.
C10_Witness ==
    /\ call.op = "new_parent" /\ call.arg # None
    /\ has_parent(Heap, call.self, call.arg)
    /\ result = "TypeError"
    /\ HasTracker(Heap, call.arg)
    /\ Cardinality({i \in DOMAIN dataobject_list[call.arg] :
                       dataobject_list[call.arg][i][4] = call.self}) = 2

\* C11: every log_modification call, the constructor's included, appends
\* exactly (logger index at the call) - 1 to the end of the object's
\* modification_log and leaves the earlier entries as they were.
C11_LogOffset ==
    [][( /\ call'.op \in {"create", "log_modification"}
         /\ result' = NoError )
       => LET a == call'.self
          IN  /\ modification_log'[a] =
                    (IF call'.op = "create" THEN <<>> ELSE modification_log[a])
                       \o <<log_index - 1>>
              /\ \A b \in Obj \ {a} : modification_log'[b] = modification_log[b]
      ]_vars

\* An object constructed at index 5 and logged again at index 9.
C11_Witness ==
    /\ call.op = "log_modification" /\ result = NoError
    /\ log_index = 9
    /\ modification_log[call.self] = <<4, 8>>

\* C12: the entry at position i (counted from 0) of a tracker's list has index
\* field i, and every step leaves the entries already in a list as they were,
\* in their places: lists only grow at the end.
C12_EntriesAppendOnly ==
    [][\A t \in Obj :
          /\ Len(dataobject_list'[t]) >= Len(dataobject_list[t])
          /\ SubSeq(dataobject_list'[t], 1, Len(dataobject_list[t])) = dataobject_list[t]
          /\ \A p \in DOMAIN dataobject_list'[t] : dataobject_list'[t][p][1] = p - 1
      ]_vars

\* new_dataobject has just appended a third entry to a list.
C12_Witness ==
    /\ call.op = "new_dataobject"
    /\ Len(dataobject_list[call.self]) = 3
    /\ dataobject_list[call.self][3][1] = 2
    /\ dataobject_list[call.self][3][4] = call.arg

\* C13: an object constructed with a parent has a non-empty parent list from
\* then on, since no step removes or moves a link; an object constructed
\* without parent has an empty parent list after its construction, which
\* changes no tracker.
C13_ParentLinksKept ==
    [][ /\ \A a \in Obj :
              Exists(a) =>
                 /\ Len(parents_and_save_behavior'[a]) >= Len(parents_and_save_behavior[a])
                 /\ SubSeq(get_parent_list(Heap', a), 1, Len(parents_and_save_behavior[a]))
                       = get_parent_list(Heap, a)
        /\ (call'.op = "create" /\ call'.arg # None)
              => parents_and_save_behavior'[call'.self] # <<>>
        /\ (call'.op = "create" /\ call'.arg = None)
              => /\ parents_and_save_behavior'[call'.self] = <<>>
                 /\ dataobject_list' = dataobject_list
      ]_vars

\* An object constructed with a parent has since been given a second one, and
\* an object has just been constructed without parent.
C13_Witness ==
    /\ call.op = "create" /\ call.arg = None /\ result = NoError
    /\ parents_and_save_behavior[call.self] = <<>>
    /\ \E a \in Obj : objtype[a] = "DataCube" /\ Len(parents_and_save_behavior[a]) = 2

\* C14 as stated: get_object_by_index raises IndexError for every index below
\* 0 or at least len(dataobject_list), and returns the object of the entry at
\* position i for every other index i.
C14_IndexBelowZeroFails ==
    [][call'.op = "get_object_by_index" =>
          LET l == dataobject_list[call'.self]
              i == call'.arg
          IN  /\ (i < 0 \/ i >= Len(l)) => result' = "IndexError"
              /\ (0 <= i /\ i < Len(l)) => (result' = NoError /\ ret' = <<l[i + 1][4]>>)
      ]_vars

\* C14: get_object_by_index raises IndexError exactly for the indices at least
\* len(dataobject_list) or below -len(dataobject_list); for 0 <= i < len it
\* returns the object of the entry at position i, and for -len <= i < 0 the
\* object of the entry at position len + i. It changes no object or tracker.
C14_GetObjectByIndex ==
    [][call'.op = "get_object_by_index" =>
          LET l == dataobject_list[call'.self]
              i == call'.arg
              n == Len(l)
          IN  /\ (i >= n \/ i < 0 - n) => (result' = "IndexError" /\ ret' = <<>>)
              /\ (0 <= i /\ i < n) => (result' = NoError /\ ret' = <<l[i + 1][4]>>)
              /\ (0 - n <= i /\ i < 0) => (result' = NoError /\ ret' = <<l[n + i + 1][4]>>)
              /\ UNCHANGED <<parents_and_save_behavior, dataobject_list, modification_log>>
      ]_vars

\* Index -1 on a list of two entries for two objects returned the second.
C14_Witness ==
    /\ call.op = "get_object_by_index" /\ call.arg = -1 /\ result = NoError
    /\ Len(dataobject_list[call.self]) = 2
    /\ dataobject_list[call.self][1][4] # dataobject_list[call.self][2][4]
    /\ ret = <<dataobject_list[call.self][2][4]>>

\* C15: sort_dataobjects_by_name returns a list with the entries of the
\* tracker's list, each once, in which no entry with an empty name comes before
\* one with a non-empty name and entries of the same kind are in the order in
\* which they were added; the tracker's list is left as it was.
C15_SortByName ==
    [][call'.op = "sort_dataobjects_by_name" =>
          LET l == dataobject_list[call'.self]
              s == ret'[1]
          IN  /\ result' = NoError
              /\ Len(s) = Len(l)
              /\ \A p \in DOMAIN l : \E q \in DOMAIN s : s[q] = l[p]
              /\ \A q1 \in DOMAIN s, q2 \in DOMAIN s :
                    q1 < q2 =>
                       /\ s[q1][2] = "" => s[q2][2] = ""
                       /\ (s[q1][2] = "") = (s[q2][2] = "") => s[q1][1] < s[q2][1]
              /\ dataobject_list' = dataobject_list
      ]_vars

\* An entry named "n" was added first, then an unnamed one, then one named
\* "m": the result is the "n" entry, the "m" entry, the unnamed entry.
C15_Witness ==
    /\ call.op = "sort_dataobjects_by_name"
    /\ LET l == dataobject_list[call.self]
       IN  /\ Len(l) = 3
           /\ l[1][2] = "n" /\ l[2][2] = "" /\ l[3][2] = "m"
           /\ ret = << <<l[1], l[3], l[2]>> >>

\* C16: every new_parent, new_dataobject and constructor call ends, having
\* made at most one nested call per tracker and one more; each nested call was
\* made after the calling method's own membership test held (the parent is in
\* the object's parent list, or the tracker contains the object), and none was
\* made for an object that was both linked to the tracker's owner and in its
\* tracker.
C16_RecursionGuarded ==
    [][call'.op \in MutatingOps =>
          /\ result' \in {NoError, "TypeError", "AssertionError"}
          /\ Len(nested') <= Cardinality({o \in Obj : HasTracker(Heap', o)}) + 1
          /\ \A i \in DOMAIN nested' :
                /\ nested'[i].checked
                /\ ~(nested'[i].linked /\ nested'[i].tracked)
      ]_vars

\* new_dataobject called new_parent, which called new_dataobject on the tracker
\* of a parent of the tracker's owner.
C16_Witness ==
    /\ call.op = "new_dataobject"
    /\ Len(nested) = 2
    /\ nested[1].callee = "new_parent" /\ nested[1].owner = call.self
    /\ nested[2].callee = "new_dataobject" /\ nested[2].owner # call.self
    /\ nested[2].dataobject = call.arg

\* C17 as stated: new_parent with a parent leaves the object in the parent's
\* tracker and in the object's own tracker, if it has one, and changes no
\* other tracker, the trackers of the parent's parents included; new_parent
\* without parent changes nothing.
C17_OnlyParentAndOwnTracker ==
    [][call'.op = "new_parent" =>
          LET a == call'.self
              o == call'.arg
          IN  /\ o = None => UNCHANGED <<parents_and_save_behavior, dataobject_list>>
              /\ o # None =>
                    /\ HasTracker(Heap, o) => contains_dataobject(Heap', o, a)
                    /\ HasTracker(Heap, a) => contains_dataobject(Heap', a, a)
                    /\ \A t \in Obj \ {o, a} : dataobject_list'[t] = dataobject_list[t]
      ]_vars

\* C17: new_parent(o, b) on an object a that does not have o as parent appends
\* (o, b) to a's parent list and leaves a in o's tracker, if o has one. The
\* only trackers a new_parent call changes are o's and those of o's parents,
\* each by at most one entry for a appended at its end; a's own tracker is not
\* among them unless a is o or a parent of o. new_parent without parent
\* changes nothing.
C17_NewParentFrame ==
    [][call'.op = "new_parent" =>
          LET a == call'.self
              o == call'.arg
          IN  /\ o = None => UNCHANGED <<parents_and_save_behavior, dataobject_list>>
              /\ (o # None /\ ~has_parent(Heap, a, o)) =>
                    /\ parents_and_save_behavior'[a] =
                          Append(parents_and_save_behavior[a],
                                 <<o, IF call'.kwargs.save_behavior # <<>>
                                      THEN call'.kwargs.save_behavior[1]
                                      ELSE save_behavior[a]>>)
                    /\ HasTracker(Heap, o) => contains_dataobject(Heap', o, a)
              /\ o # None =>
                    \A t \in Obj :
                       \/ dataobject_list'[t] = dataobject_list[t]
                       \/ /\ t = o \/ has_parent(Heap', o, t)
                          /\ Len(dataobject_list'[t]) = Len(dataobject_list[t]) + 1
                          /\ SubSeq(dataobject_list'[t], 1, Len(dataobject_list[t]))
                                = dataobject_list[t]
                          /\ dataobject_list'[t][Len(dataobject_list'[t])][4] = a
      ]_vars

\* new_parent has put the object in the tracker of a parent of its new parent,
\* a tracker that is neither the new parent's nor the object's own, and has
\* left the object's own tracker empty.
C17_Witness ==
    /\ call.op = "new_parent" /\ call.arg # None
    /\ \E i \in DOMAIN nested :
          /\ nested[i].callee = "new_dataobject"
          /\ nested[i].owner \notin {call.arg, call.self}
          /\ has_parent(Heap, call.arg, nested[i].owner)
          /\ contains_dataobject(Heap, nested[i].owner, call.self)
    /\ HasTracker(Heap, call.self) /\ dataobject_list[call.self] = <<>>

\* C18: after a new_parent(o) call without save_behavior, and after a
\* new_dataobject call without save_behavior on o's tracker for an object that
\* did not have o as parent, the object's save behavior for o is its default
\* save_behavior; no new_parent, new_dataobject or change_save_behavior call
\* changes a default.
C18_DefaultSaveBehavior ==
    [][ /\ ( /\ call'.op = "new_parent" /\ call'.arg # None
             /\ call'.kwargs.save_behavior = <<>> )
           => get_save_behavior(Heap', call'.self, call'.arg)
                 = <<NoError, <<save_behavior[call'.self]>>>>
        /\ ( /\ call'.op = "new_dataobject" /\ call'.arg # None
             /\ call'.kwargs.save_behavior = <<>>
             /\ ~has_parent(Heap, call'.arg, call'.self) )
           => get_save_behavior(Heap', call'.arg, call'.self)
                 = <<NoError, <<save_behavior[call'.arg]>>>>
        /\ call'.op \in {"new_parent", "new_dataobject", "change_save_behavior"}
           => save_behavior' = save_behavior
      ]_vars

\* C19: a new_parent or new_dataobject call that raises leaves every parent
\* list and every tracker's list as it was before the call.
C19_FailureAtomicity ==
    [][(call'.op \in {"new_parent", "new_dataobject"} /\ result' # NoError)
          => UNCHANGED <<parents_and_save_behavior, dataobject_list>>
      ]_vars

\* C20: new_parent, new_dataobject, change_save_behavior and the tracker's
\* queries leave every modification_log as it was. A constructor call that
\* returns leaves the new object with a log of exactly one entry, whatever it
\* registered on the way, and changes no other log; a log_modification call
\* adds exactly one entry to the log of its object and changes no other log.
C20_OnlyLoggingLogs ==
    [][ /\ call'.op \notin {"create", "log_modification"}
           => modification_log' = modification_log
        /\ call'.op \in {"create", "log_modification"}
           => \A b \in Obj \ {call'.self} : modification_log'[b] = modification_log[b]
        /\ (call'.op = "create" /\ result' = NoError)
           => Len(modification_log'[call'.self]) = 1
        /\ (call'.op = "log_modification" /\ result' = NoError)
           => Len(modification_log'[call'.self]) = Len(modification_log[call'.self]) + 1
      ]_vars

\* A constructor called when the logger's index was 5 has registered the new
\* object with its parent and returned, and the object's log is [4]; its
\* parent's log has two entries.
C20_Witness ==
    /\ call.op = "create" /\ result = NoError /\ call.arg # None
    /\ Len(nested) = 1
    /\ contains_dataobject(Heap, call.arg, call.self)
    /\ modification_log[call.self] = <<4>>
    /\ Len(modification_log[call.arg]) = 2

====
